---- MODULE Spec2Model ----
(***************************************************************************)
(* Model of dashboard_parker: the congruential generators and batches      *)
(* (utils/congruenciales.py), the validators (utils/validaciones.py), the  *)
(* statistics (utils/estadisticos.py) and the web handlers (app.py).       *)
(*                                                                         *)
(* Python values are modelled as follows.  An int is an Integer.  None (and *)
(* an absent dictionary key read through dict.get) is the string "None".   *)
(* A float produced by the true division x / m of two ints is the exact    *)
(* rational x/m, kept as a pair <<p, q>> in lowest terms with q > 0.        *)
(***************************************************************************)
EXTENDS Integers, Sequences, FiniteSets, TLC

VARIABLES
    \* congruenciales.py: one call of a generator
    tipo, semilla, a, b, c, m, n,   \* which generator and its arguments
    x, numeros, it, pc,             \* locals x, numeros; loop count; position
    \* validaciones.py: one call of validar_parametros_congruencial
    vtipo, parametros,              \* its arguments tipo and parametros
    errores, es_valido, vpc,        \* its result (es_valido, errores); position
    \* validaciones.py: one call of validar_dataframe
    df, columnas_requeridas,        \* its arguments
    df_errores, df_valido, dpc,     \* its result (es_valido, errores); position
    \* app.py: the request handled last
    peticion,                       \* the route and what the client sent
    llamadas,                       \* the core calls the handler made, in order
    respuesta,                      \* what the handler answered
    \* estadisticos.py / congruenciales.py: one call of a statistics function
    funcion, datos, arg,            \* which function, its numeros, bins or lag
    reporte, evaluadas, epc,        \* its result; what it computed; position
    \* congruenciales.py: one call of generar_lote_congruencial
    ltipo, lparametros, n_lotes,    \* its arguments
    lote_i, resultados,             \* loop variable i and local resultados
    generadas, lpc,                 \* the generator calls it made; position
    \* successive calls of the generators by one caller
    previas, n_llamadas,            \* finished calls, in order; calls started
    \* congruenciales.py / estadisticos.py: one call of a test function
    prueba, muestra, distribucion,  \* which test, its numeros, its distribucion
    instaladas,                     \* the optional libraries that can be imported
    veredicto, excepcion, ppc,      \* its result; what it raised; position
    \* app.py: the requests being served by the server's threads
    resultados_simulacion,          \* the module-level dict
    hilos,                          \* per request: what was sent, locals, position
    reloj,                          \* datetime.now()
    escrituras                      \* the requests that stored results, in order

genVars == <<tipo, semilla, a, b, c, m, n, x, numeros, it, pc>>
valVars == <<vtipo, parametros, errores, es_valido, vpc>>
dfVars == <<df, columnas_requeridas, df_errores, df_valido, dpc>>
webVars == <<peticion, llamadas, respuesta>>
estVars == <<funcion, datos, arg, reporte, evaluadas, epc>>
loteVars == <<ltipo, lparametros, n_lotes, lote_i, resultados, generadas, lpc>>
detVars == <<previas, n_llamadas>>
pruebaVars ==
    <<prueba, muestra, distribucion, instaladas, veredicto, excepcion, ppc>>
cacheVars == <<resultados_simulacion, hilos, reloj, escrituras>>
vars == <<genVars, valVars, dfVars, webVars, estVars, loteVars, detVars,
          pruebaVars, cacheVars>>

\* The state of a component no call of which is in progress.
GenIdle ==
    /\ tipo = "" /\ semilla = 0 /\ a = 0 /\ b = 0 /\ c = 0 /\ m = 0 /\ n = 0
    /\ x = 0 /\ numeros = <<>> /\ it = 0 /\ pc = ""
ValIdle ==
    /\ vtipo = "" /\ parametros = <<>> /\ errores = <<>>
    /\ es_valido = FALSE /\ vpc = ""
DfIdle ==
    /\ df = [filas |-> 0, columnas |-> <<>>] /\ columnas_requeridas = <<>>
    /\ df_errores = <<>> /\ df_valido = FALSE /\ dpc = ""
WebIdle ==
    /\ peticion = [ruta |-> "", metodo |-> "", datos |-> <<>>]
    /\ llamadas = <<>>
    /\ respuesta = [estado |-> "", numeros |-> <<>>]
EstIdle ==
    /\ funcion = "" /\ datos = <<>> /\ arg = 0
    /\ reporte = <<>> /\ evaluadas = {} /\ epc = ""
LoteIdle ==
    /\ ltipo = "" /\ lparametros = <<>> /\ n_lotes = 0 /\ lote_i = 0
    /\ resultados = <<>> /\ generadas = <<>> /\ lpc = ""
DetIdle == previas = <<>> /\ n_llamadas = 0
PruebaIdle ==
    /\ prueba = "" /\ muestra = <<>> /\ distribucion = "" /\ instaladas = {}
    /\ veredicto = <<>> /\ excepcion = "" /\ ppc = ""
CacheIdle ==
    /\ resultados_simulacion = <<>> /\ hilos = <<>> /\ reloj = 0
    /\ escrituras = <<>>

\* ------------------------------------------------------------------ bounds
MaxAbs == 2
MaxN == 5

\* ------------------------------------------------------------- arithmetic
Abs(v) == IF v < 0 THEN -v ELSE v

RECURSIVE GCD(_, _)
GCD(p, q) == IF q = 0 THEN p ELSE GCD(q, p % q)

\* Python's int % int for a non-zero divisor: the result has the divisor's sign.
PyMod_truncado(p, d) == IF p >= 0 THEN p % Abs(d) ELSE -((-p) % Abs(d))
PyMod(p, d) == IF d > 0 THEN p % d ELSE -((-p) % (-d))

\* Python's int / int (true division), d # 0: the quotient as a rational in
\* lowest terms with a positive denominator.
TrueDiv(p, d) ==
    LET g == GCD(Abs(p), Abs(d))
        s == IF d < 0 THEN -1 ELSE 1
    IN  <<(s * p) \div g, Abs(d) \div g>>

\* ----------------------------------------------------- the loop bodies
lineal_paso_sin_parentesis(xv, av, cv, mv) == av * xv + PyMod(cv, mv)
lineal_paso(xv, av, cv, mv) == PyMod(av * xv + cv, mv)

multiplicativo_paso_con_suma(xv, av, mv) == PyMod(av + xv, mv)
multiplicativo_paso(xv, av, mv) == PyMod(av * xv, mv)

cuadratico_paso(xv, av, bv, cv, mv) == PyMod(av * xv * xv + bv * xv + cv, mv)

\* ------------------------------------------------------------ generators
Tipos == {"lineal", "multiplicativo", "cuadratico"}
Rango == (-MaxAbs)..MaxAbs

GenInit ==
    /\ tipo \in Tipos
    /\ semilla \in Rango
    /\ a \in Rango \cup {5}
    /\ m \in Rango \cup {16}
    /\ n \in (-1)..MaxN
    /\ b \in IF tipo = "cuadratico" THEN Rango ELSE {0}
    /\ c \in IF tipo = "multiplicativo" THEN {0} ELSE Rango \cup {3}
    /\ x = semilla
    /\ numeros = <<>>
    /\ it = 0
    /\ pc = "bucle"

\* One pass of `for _ in range(n)`; a zero modulus raises ZeroDivisionError
\* at the % and the call ends without a result.
Iterar(siguiente) ==
    /\ pc = "bucle"
    /\ it < n
    /\ IF m = 0
       THEN /\ pc' = "error"
            /\ UNCHANGED <<x, numeros, it>>
       ELSE /\ x' = siguiente
            /\ numeros' = Append(numeros, TrueDiv(siguiente, m))
            /\ it' = it + 1
            /\ pc' = "bucle"
    /\ UNCHANGED <<tipo, semilla, a, b, c, m, n>>
    /\ UNCHANGED <<valVars, dfVars, webVars, estVars, loteVars, detVars,
                 pruebaVars, cacheVars>>

LinealIter == tipo = "lineal" /\ Iterar(lineal_paso(x, a, c, m))

MultiplicativoIter == tipo = "multiplicativo" /\ Iterar(multiplicativo_paso(x, a, m))

CuadraticoIter == tipo = "cuadratico" /\ Iterar(cuadratico_paso(x, a, b, c, m))

\* range(n) is exhausted (at once when n <= 0): return numeros.
Retornar ==
    /\ pc = "bucle"
    /\ it >= n
    /\ pc' = "retornado"
    /\ UNCHANGED <<tipo, semilla, a, b, c, m, n, x, numeros, it>>
    /\ UNCHANGED <<valVars, dfVars, webVars, estVars, loteVars, detVars,
                 pruebaVars, cacheVars>>

GenNext == LinealIter \/ MultiplicativoIter \/ CuadraticoIter \/ Retornar

GeneradoresInit ==
    /\ GenInit /\ ValIdle /\ DfIdle /\ WebIdle
    /\ EstIdle /\ LoteIdle /\ DetIdle
    /\ PruebaIdle /\ CacheIdle

SpecGen == GeneradoresInit /\ [][GenNext]_vars

\* --------------------------------------------------- claims on generators
\* The claim's recurrence, stated on the call's arguments: x_0 = seed,
\* x_i = (a * x_(i-1) + c) mod m.
RECURSIVE C1_x(_)
C1_x(i) == IF i = 0 THEN semilla ELSE PyMod(a * C1_x(i - 1) + c, m)

C1_Ejemplo == semilla = 1 /\ a = 5 /\ c = 3 /\ m = 16 /\ n = 5

\* C1: the linear generator's i-th output is x_i / m for every i in 1..n,
\* with x_0 = seed and x_i = (a*x_(i-1) + c) mod m, so the seed itself is not
\* emitted; (1, 5, 3, 16, 5) gives the states 8, 11, 10, 5, 12, that is
\* [0.5, 0.6875, 0.625, 0.3125, 0.75].
C1_LinealRecurrence ==
    (tipo = "lineal" /\ pc # "error") =>
        /\ \A i \in 1..Len(numeros) : numeros[i] = TrueDiv(C1_x(i), m)
        /\ pc = "retornado" => \A i \in 1..n : i <= Len(numeros)
        /\ (pc = "retornado" /\ C1_Ejemplo) =>
              /\ numeros = <<TrueDiv(8, 16), TrueDiv(11, 16), TrueDiv(10, 16),
                             TrueDiv(5, 16), TrueDiv(12, 16)>>
              /\ numeros = <<<<1, 2>>, <<11, 16>>, <<5, 8>>, <<5, 16>>, <<3, 4>>>>

C1_Witness ==
    tipo = "lineal" /\ pc = "retornado" /\ C1_Ejemplo /\ Len(numeros) = 5

\* A value of the output sequence lies in [0, 1).
InUnit(q) == 0 <= q[1] /\ q[1] < q[2]

C3_NeverCrashes == pc # "error"

\* ================================================================== validator
\* validaciones.py, validar_parametros_congruencial.  parametros is a dict:
\* a function whose domain is the set of keys present; dict.get(k) of an
\* absent key is None, so `v is None` is `k \notin DOMAIN p`.
Tiene(p, k) == k \in DOMAIN p

MinCantidad == 10
MaxCantidad == 100000
CantidadPorDefecto == 1

E_SEMILLA == "La semilla debe ser un numero positivo"
E_CANTIDAD == "La cantidad de numeros debe estar entre 10 y 100,000"
E_MODULO == "El modulo m debe ser un numero positivo"
E_A_REQUERIDO == "El multiplicador 'a' es requerido"
E_A_POSITIVO == "El multiplicador 'a' debe ser positivo"
E_C_REQUERIDO == "El incremento 'c' es requerido"
E_C_NO_NEGATIVO == "El incremento 'c' debe ser no negativo"
E_M_MAYOR == "El modulo m debe ser mayor que la semilla"
E_A_CUADRATICO == "El coeficiente cuadratico 'a' es requerido y no puede ser cero"
E_B_REQUERIDO == "El coeficiente lineal 'b' es requerido"
E_C_CONST_REQUERIDO == "El termino constante 'c' es requerido"
E_TIPO == "Tipo de generador no valido: "

\* Python truthiness of dict.get(k): neither None nor 0.
Verdadero(p, k) == Tiene(p, k) /\ p[k] # 0

regla_semilla(p) ==
    IF ~Tiene(p, "semilla") \/ p["semilla"] <= 0 THEN <<E_SEMILLA>> ELSE <<>>

\* n = parametros.get('cantidad', parametros.get('n', 1))
cantidad_de(p) ==
    IF Tiene(p, "cantidad") THEN p["cantidad"]
    ELSE IF Tiene(p, "n") THEN p["n"] ELSE CantidadPorDefecto

regla_cantidad_excluyente(p) ==
    IF cantidad_de(p) <= MinCantidad \/ cantidad_de(p) > MaxCantidad
    THEN <<E_CANTIDAD>> ELSE <<>>
regla_cantidad(p) ==
    IF cantidad_de(p) < MinCantidad \/ cantidad_de(p) > MaxCantidad
    THEN <<E_CANTIDAD>> ELSE <<>>

regla_modulo(p) ==
    IF ~Tiene(p, "m") \/ p["m"] <= 0 THEN <<E_MODULO>> ELSE <<>>

regla_multiplicador(p) ==
    IF ~Tiene(p, "a") THEN <<E_A_REQUERIDO>>
    ELSE IF p["a"] <= 0 THEN <<E_A_POSITIVO>> ELSE <<>>

regla_incremento(p) ==
    IF ~Tiene(p, "c") THEN <<E_C_REQUERIDO>>
    ELSE IF p["c"] < 0 THEN <<E_C_NO_NEGATIVO>> ELSE <<>>

\* if m and semilla and m <= semilla
regla_m_mayor_que_semilla(p) ==
    IF Verdadero(p, "m") /\ Verdadero(p, "semilla") /\ p["m"] <= p["semilla"]
    THEN <<E_M_MAYOR>> ELSE <<>>

regla_a_cuadratico_solo_none(p) ==
    IF ~Tiene(p, "a") THEN <<E_A_CUADRATICO>> ELSE <<>>
regla_a_cuadratico(p) ==
    IF ~Tiene(p, "a") \/ p["a"] = 0 THEN <<E_A_CUADRATICO>> ELSE <<>>

regla_b(p) == IF ~Tiene(p, "b") THEN <<E_B_REQUERIDO>> ELSE <<>>

regla_c_const(p) ==
    IF ~Tiene(p, "c_const") THEN <<E_C_CONST_REQUERIDO>> ELSE <<>>

error_tipo_sin_nombre(t) == <<E_TIPO>>
error_tipo(t) == <<E_TIPO \o t>>

\* The list errores at the return, in the order of the appends.
errores_de(t, p) ==
    regla_semilla(p) \o regla_cantidad(p) \o regla_modulo(p) \o
    ( IF t = "lineal"
      THEN regla_multiplicador(p) \o regla_incremento(p)
           \o regla_m_mayor_que_semilla(p)
      ELSE IF t = "multiplicativo"
      THEN regla_multiplicador(p) \o regla_m_mayor_que_semilla(p)
      ELSE IF t = "cuadratico"
      THEN regla_a_cuadratico(p) \o regla_b(p) \o regla_c_const(p)
      ELSE error_tipo(t) )

\* ----------------------------------------------------------- its inputs
TiposNoValidos == {"mixto", "Lineal"}

\* A key's entry: <<>> when the key is absent, <<v>> when it holds v.
Entradas(S) == {<<>>} \cup {<<v>> : v \in S}

Claves == {"semilla", "cantidad", "n", "m", "a", "b", "c", "c_const"}

Dict(e) == [k \in {j \in Claves : e[j] # <<>>} |-> e[k][1]]

ParamDicts ==
    { Dict([semilla |-> eS, cantidad |-> eQ, n |-> eN, m |-> eM,
            a |-> eA, b |-> eB, c |-> eC, c_const |-> eK]) :
        eS \in Entradas((-1)..MaxAbs),
        eQ \in Entradas({9, 10, 20, 100000, 100001}),
        eN \in Entradas({5, 50}),
        eM \in Entradas((-1)..MaxAbs \cup {16}),
        eA \in Entradas({-1, 0, 5}),
        eB \in Entradas({0, 1}),
        eC \in Entradas({-1, 0, 3}),
        eK \in Entradas({0, 1}) }

ValInit ==
    /\ vtipo \in Tipos \cup TiposNoValidos
    /\ parametros \in ParamDicts
    /\ errores = <<>>
    /\ es_valido = FALSE
    /\ vpc = "llamada"

\* The call: return len(errores) == 0, errores
Validar ==
    /\ vpc = "llamada"
    /\ errores' = errores_de(vtipo, parametros)
    /\ es_valido' = (Len(errores_de(vtipo, parametros)) = 0)
    /\ vpc' = "retornado"
    /\ UNCHANGED <<vtipo, parametros>>
    /\ UNCHANGED <<genVars, dfVars, webVars, estVars, loteVars, detVars,
                 pruebaVars, cacheVars>>

\* ------------------------------------------------------ validar_dataframe
\* A DataFrame: its number of rows and its columns in order; a column has a
\* label, a dtype that is numeric or not, and the rows where it holds a null.
MaxFilas == 2
MaxCols == 2
MaxReq == 2

E_VACIO == "El DataFrame esta vacio"
E_COLUMNA == "Columna requerida no encontrada: "
E_NO_NUMERICAS == "No se encontraron columnas numericas en el archivo"
E_NULOS == "Se encontraron valores nulos en las columnas: "

\* DataFrame.empty: some axis has length 0.
df_empty(d) == d.filas = 0 \/ Len(d.columnas) = 0

\* df.select_dtypes(include=[np.number])
select_numericas(d) ==
    [filas |-> d.filas,
     columnas |-> SelectSeq(d.columnas, LAMBDA col : col.numerica)]

\* col in df.columns
en_columnas(d, nombre) ==
    \E i \in 1..Len(d.columnas) : d.columnas[i].nombre = nombre

\* df.columns[df.isnull().any()].tolist()
columnas_nulas_todas(d) ==
    [i \in 1..Len(d.columnas) |-> d.columnas[i].nombre]
columnas_nulas(d) ==
    LET con == SelectSeq(d.columnas, LAMBDA col : col.nulos # {})
    IN  [i \in 1..Len(con) |-> con[i].nombre]

\* ', '.join(nombres)
RECURSIVE join_coma(_)
join_coma(nombres) ==
    IF Len(nombres) = 0 THEN ""
    ELSE IF Len(nombres) = 1 THEN nombres[1]
    ELSE nombres[1] \o ", " \o join_coma(Tail(nombres))

\* The loop over columnas_requeridas (skipped when it is None or empty).
RECURSIVE errores_requeridas(_, _)
errores_requeridas(d, req) ==
    IF Len(req) = 0 THEN <<>>
    ELSE ( IF en_columnas(d, Head(req)) THEN <<>>
           ELSE <<E_COLUMNA \o Head(req)>> )
         \o errores_requeridas(d, Tail(req))

errores_df(d, req) ==
    IF df_empty(d) THEN <<E_VACIO>>
    ELSE errores_requeridas(d, req)
         \o ( IF df_empty(select_numericas(d))
              THEN <<E_NO_NUMERICAS>> ELSE <<>> )
         \o ( IF \E i \in 1..Len(d.columnas) : d.columnas[i].nulos # {}
              THEN <<E_NULOS \o join_coma(columnas_nulas(d))>> ELSE <<>> )

\* ----------------------------------------------------------- its inputs
NombresColumna == {"x", "y", "z"}
NombresRequeridos == {"x", "w"}

SeqsHasta(S, k) == UNION {[1..j -> S] : j \in 0..k}

DataFrames ==
    UNION { { [filas |-> f, columnas |-> cols] :
                cols \in { cs \in SeqsHasta([nombre : NombresColumna,
                                            numerica : BOOLEAN,
                                            nulos : SUBSET (1..f)], MaxCols) :
                             \A i, j \in 1..Len(cs) :
                                 cs[i].nombre = cs[j].nombre => i = j } } :
            f \in 0..MaxFilas }

DfInit ==
    /\ df \in DataFrames
    /\ columnas_requeridas \in SeqsHasta(NombresRequeridos, MaxReq)
    /\ df_errores = <<>>
    /\ df_valido = FALSE
    /\ dpc = "llamada"

\* The call: (False, errores) at once for an empty frame, else
\* (len(errores) == 0, errores).
ValidarDataframe ==
    /\ dpc = "llamada"
    /\ df_errores' = errores_df(df, columnas_requeridas)
    /\ df_valido' = IF df_empty(df) THEN FALSE
                    ELSE Len(errores_df(df, columnas_requeridas)) = 0
    /\ dpc' = "retornado"
    /\ UNCHANGED <<df, columnas_requeridas>>
    /\ UNCHANGED <<genVars, valVars, webVars, estVars, loteVars, detVars,
                 pruebaVars, cacheVars>>

ValNext == Validar \/ ValidarDataframe

ValidadoresInit ==
    /\ GenIdle /\ WebIdle /\ EstIdle /\ LoteIdle /\ DetIdle
    /\ PruebaIdle /\ CacheIdle
    /\ (ValInit /\ DfIdle) \/ (DfInit /\ ValIdle)

SpecVal == ValidadoresInit /\ [][ValNext]_vars

\* --------------------------------------------------- claims on validators
Rango_de(lista) == {lista[i] : i \in 1..Len(lista)}

\* The count (key cantidad, else key n) is given and in [10, 100000].
C6_cantidad_en_rango(p) ==
    \/ Tiene(p, "cantidad") /\ 10 <= p["cantidad"] /\ p["cantidad"] <= 100000
    \/ ~Tiene(p, "cantidad") /\ Tiene(p, "n") /\ 10 <= p["n"] /\ p["n"] <= 100000

C5_nulas(d) == {i \in 1..Len(d.columnas) : d.columnas[i].nulos # {}}
C5_sin_numericas(d) == \A i \in 1..Len(d.columnas) : ~d.columnas[i].numerica

\* C5: the error list a validator returns has an entry for every rule the
\* input violates, not only for the first one: for the generator parameters
\* (seed, count, modulus, then the rules of the type) and for a dataset
\* (empty, required column missing, no numeric column, null values).
C5_CompleteErrorList ==
    /\ vpc = "retornado" =>
        LET p == parametros
            errs == Rango_de(errores)
        IN  /\ (~Tiene(p, "semilla") \/ p["semilla"] <= 0) => E_SEMILLA \in errs
            /\ ~C6_cantidad_en_rango(p) => E_CANTIDAD \in errs
            /\ (~Tiene(p, "m") \/ p["m"] <= 0) => E_MODULO \in errs
            /\ (vtipo \in {"lineal", "multiplicativo"}) =>
                 /\ ~Tiene(p, "a") => E_A_REQUERIDO \in errs
                 /\ (Tiene(p, "a") /\ p["a"] <= 0) => E_A_POSITIVO \in errs
                 /\ (Tiene(p, "m") /\ Tiene(p, "semilla")
                       /\ p["m"] > 0 /\ p["semilla"] > 0
                       /\ p["m"] <= p["semilla"]) => E_M_MAYOR \in errs
            /\ vtipo = "lineal" =>
                 /\ ~Tiene(p, "c") => E_C_REQUERIDO \in errs
                 /\ (Tiene(p, "c") /\ p["c"] < 0) => E_C_NO_NEGATIVO \in errs
            /\ vtipo = "cuadratico" =>
                 /\ (~Tiene(p, "a") \/ p["a"] = 0) => E_A_CUADRATICO \in errs
                 /\ ~Tiene(p, "b") => E_B_REQUERIDO \in errs
                 /\ ~Tiene(p, "c_const") => E_C_CONST_REQUERIDO \in errs
            /\ vtipo \notin Tipos => (E_TIPO \o vtipo) \in errs
    /\ dpc = "retornado" =>
        LET errs == Rango_de(df_errores)
        IN  /\ (df.filas = 0 \/ Len(df.columnas) = 0) => E_VACIO \in errs
            /\ \A i \in 1..Len(columnas_requeridas) :
                 (\A j \in 1..Len(df.columnas) :
                      df.columnas[j].nombre # columnas_requeridas[i])
                 => (E_COLUMNA \o columnas_requeridas[i]) \in errs
            /\ C5_sin_numericas(df) => E_NO_NUMERICAS \in errs
            /\ C5_nulas(df) # {} =>
                 \E e \in errs : e \notin {E_VACIO, E_NO_NUMERICAS}
                                 /\ \A r \in Rango_de(columnas_requeridas) :
                                       e # E_COLUMNA \o r

C6_Ejemplo == [semilla |-> 1, a |-> 5, c |-> 3, m |-> 16, cantidad |-> 20]
C6_EjemploModuloCero == [semilla |-> 1, a |-> 5, c |-> 3, m |-> 0, cantidad |-> 20]

\* C6: for the linear type the validator answers valid (an empty error list)
\* exactly when seed is present and > 0, count is in [10, 100000], modulus is
\* present and > 0, multiplier is present and > 0, increment is present and
\* >= 0, and modulus > seed; (1, 5, 3, 16, count 20) is valid and the same with
\* m = 0 is invalid with the error that the modulus must be positive.
C6_LinealValidIff ==
    (vpc = "retornado" /\ vtipo = "lineal") =>
        LET p == parametros
        IN  /\ es_valido <=> errores = <<>>
            /\ es_valido <=>
                 /\ Tiene(p, "semilla") /\ p["semilla"] > 0
                 /\ C6_cantidad_en_rango(p)
                 /\ Tiene(p, "m") /\ p["m"] > 0
                 /\ Tiene(p, "a") /\ p["a"] > 0
                 /\ Tiene(p, "c") /\ p["c"] >= 0
                 /\ p["m"] > p["semilla"]
            /\ p = C6_Ejemplo => es_valido
            /\ p = C6_EjemploModuloCero =>
                 ~es_valido /\ E_MODULO \in Rango_de(errores)

C6_Witness ==
    /\ vpc = "retornado" /\ vtipo = "lineal"
    /\ parametros = C6_EjemploModuloCero /\ errores = <<E_MODULO>>

\* C7: a parameter set the validator accepts, of any type, has
\* modulus > seed and a non-zero multiplier / quadratic coefficient.
C7_AcceptedImpliesModulusAboveSeed ==
    (vpc = "retornado" /\ es_valido) =>
        /\ parametros["m"] > parametros["semilla"]
        /\ parametros["a"] # 0

\* C8: for the quadratic type the validator reports an error whenever a is
\* missing or zero, whenever b is missing and whenever c_const is missing,
\* and reports none for b = 0 or c_const = 0; so no parameter set with a = 0
\* is approved.
C8_CuadraticoRules ==
    (vpc = "retornado" /\ vtipo = "cuadratico") =>
        LET p == parametros
            errs == Rango_de(errores)
        IN  /\ (~Tiene(p, "a") \/ p["a"] = 0) <=> E_A_CUADRATICO \in errs
            /\ ~Tiene(p, "b") <=> E_B_REQUERIDO \in errs
            /\ ~Tiene(p, "c_const") <=> E_C_CONST_REQUERIDO \in errs
            /\ es_valido => (Tiene(p, "a") /\ p["a"] # 0)
            /\ (E_A_CUADRATICO \in errs) => ~es_valido

C8_Witness ==
    /\ vpc = "retornado" /\ vtipo = "cuadratico"
    /\ Tiene(parametros, "a") /\ parametros["a"] = 0
    /\ Tiene(parametros, "b") /\ parametros["b"] = 0
    /\ Tiene(parametros, "c_const") /\ parametros["c_const"] = 0
    /\ errores = <<E_A_CUADRATICO>>

\* C9 as stated: an unrecognized type gives invalid with an error list of
\* exactly one entry, which names the type.
C9_SingleErrorOnly ==
    (vpc = "retornado" /\ vtipo \notin Tipos) =>
        ~es_valido /\ errores = <<E_TIPO \o vtipo>>

\* C9 amended: an unrecognized type gives invalid with exactly one entry that
\* names the type, the last of the list; the entries before it are the errors
\* of the common seed, count and modulus rules the parameters violate, so the
\* list is that single entry exactly when those three rules pass.
C9_OneTypeErrorLast ==
    (vpc = "retornado" /\ vtipo \notin Tipos) =>
        LET k == Len(errores)
            p == parametros
        IN  /\ ~es_valido
            /\ k >= 1 /\ errores[k] = E_TIPO \o vtipo
            /\ \A i \in 1..(k - 1) : errores[i] \in {E_SEMILLA, E_CANTIDAD, E_MODULO}
            /\ k = 1 <=> /\ Tiene(p, "semilla") /\ p["semilla"] > 0
                         /\ C6_cantidad_en_rango(p)
                         /\ Tiene(p, "m") /\ p["m"] > 0

C9_Witness ==
    /\ vpc = "retornado" /\ vtipo = "mixto" /\ DOMAIN parametros = {}
    /\ errores = <<E_SEMILLA, E_CANTIDAD, E_MODULO, E_TIPO \o "mixto">>

\* C10: validar_dataframe answers invalid exactly when the dataset is empty,
\* or a required column is missing, or it has no numeric column, or some
\* column holds a missing value; the missing-value error names every column
\* that has a missing value and no other column.
C10_DataframeInvalidIff ==
    dpc = "retornado" =>
        LET nulas == C5_nulas(df)
            falta == \E i \in 1..Len(columnas_requeridas) :
                        \A j \in 1..Len(df.columnas) :
                            df.columnas[j].nombre # columnas_requeridas[i]
            vacio == df.filas = 0 \/ Len(df.columnas) = 0
        IN  /\ ~df_valido <=>
                  (vacio \/ falta \/ C5_sin_numericas(df) \/ nulas # {})
            /\ nulas # {} =>
                 \E lista \in SeqsHasta(NombresColumna, Len(df.columnas)) :
                    /\ E_NULOS \o join_coma(lista) \in Rango_de(df_errores)
                    /\ Rango_de(lista) = {df.columnas[i].nombre : i \in nulas}
                    /\ Len(lista) = Cardinality(nulas)

C10_Witness ==
    /\ dpc = "retornado" /\ Len(df.columnas) = 2
    /\ df.columnas[1].nulos = {} /\ df.columnas[2].nulos # {}
    /\ df.columnas[1].numerica /\ columnas_requeridas = <<"x">>
    /\ df_errores = <<E_NULOS \o df.columnas[2].nombre>>

\* ================================================================== web layer
\* app.py.  A request carries a method name and a dict of fields.  A form
\* field that is absent or is not the text of an integer makes int(...)
\* raise inside the handler's try block; both are the absent key here.

\* A generator as a function: the list it returns.  It raises
\* ZeroDivisionError instead when m = 0 and the loop runs at least once.
generador_falla(mv, nv) == mv = 0 /\ nv > 0

paso(t, xv, av, bv, cv, mv) ==
    IF t = "lineal" THEN lineal_paso(xv, av, cv, mv)
    ELSE IF t = "multiplicativo" THEN multiplicativo_paso(xv, av, mv)
    ELSE cuadratico_paso(xv, av, bv, cv, mv)

RECURSIVE secuencia(_, _, _, _, _, _, _)
secuencia(t, xv, av, bv, cv, mv, nv) ==
    IF nv <= 0 THEN <<>>
    ELSE LET s == paso(t, xv, av, bv, cv, mv)
         IN  <<TrueDiv(s, mv)>> \o secuencia(t, s, av, bv, cv, mv, nv - 1)

\* The fields each branch of metodos_congruenciales converts with int(...).
campos_de(metodo) ==
    {"semilla", "cantidad"} \cup
    ( IF metodo = "lineal" THEN {"a", "c", "m"}
      ELSE IF metodo = "multiplicativo" THEN {"a", "m"}
      ELSE IF metodo = "cuadratico" THEN {"a", "b", "c_const", "m"}
      ELSE {} )

Campo(f, k) == IF Tiene(f, k) THEN f[k] ELSE 0

\* The arguments a handler hands to the generator, as a parameter dict.
argumentos(metodo, sem, av, bv, cv, mv, nv) ==
    IF metodo = "lineal"
    THEN [semilla |-> sem, a |-> av, c |-> cv, m |-> mv, n |-> nv]
    ELSE IF metodo = "multiplicativo"
    THEN [semilla |-> sem, a |-> av, m |-> mv, n |-> nv]
    ELSE [semilla |-> sem, a |-> av, b |-> bv, c_const |-> cv, m |-> mv, n |-> nv]

llamada_generador(metodo, args) ==
    [componente |-> "generador", tipo |-> metodo, parametros |-> args]

\* What a handler does from the generator call on: the call is recorded; an
\* exception of the generator, or of np.min on an empty list afterwards, is
\* caught by the handler's except and answered with `fallo`, anything else
\* with `exito` and the numbers.
generar_y_responder(metodo, sem, av, bv, cv, mv, nv, exito, fallo) ==
    /\ llamadas' = <<llamada_generador(metodo,
                        argumentos(metodo, sem, av, bv, cv, mv, nv))>>
    /\ respuesta' =
         IF generador_falla(mv, nv) \/ nv <= 0
         THEN [estado |-> fallo, numeros |-> <<>>]
         ELSE [estado |-> exito,
               numeros |-> secuencia(metodo, sem, av, bv, cv, mv, nv)]

\* POST /metodos-congruenciales with 'calcular' in the form.
MetodosCongruenciales ==
    LET metodo == peticion.metodo
        f == peticion.datos
    IN  /\ respuesta.estado = "pendiente"
        /\ peticion.ruta = "/metodos-congruenciales"
        /\ IF campos_de(metodo) \subseteq DOMAIN f /\ metodo \in Tipos
           THEN generar_y_responder(metodo, f["semilla"], f["a"], Campo(f, "b"),
                    IF metodo = "cuadratico" THEN f["c_const"] ELSE Campo(f, "c"),
                    f["m"], f["cantidad"], "render", "redirect_error")
           ELSE \* int(None) raises, or numeros is unbound at ax1.hist(numeros)
                /\ llamadas' = <<>>
                /\ respuesta' = [estado |-> "redirect_error", numeros |-> <<>>]
        /\ UNCHANGED <<peticion, genVars, valVars, dfVars, estVars, loteVars, detVars,
                 pruebaVars, cacheVars>>

Defecto(f, k, d) == IF Tiene(f, k) THEN f[k] ELSE d

\* POST /api/generar-numeros.
ApiGenerarNumeros ==
    LET metodo == peticion.metodo
        f == peticion.datos
    IN  /\ respuesta.estado = "pendiente"
        /\ peticion.ruta = "/api/generar-numeros"
        /\ IF metodo \in {"lineal", "multiplicativo"}
           THEN generar_y_responder(metodo, Defecto(f, "semilla", 1),
                    Defecto(f, "a", 5), 0, Defecto(f, "c", 3),
                    Defecto(f, "m", 16), Defecto(f, "n", 10),
                    "json_200", "json_500")
           ELSE /\ llamadas' = <<>>
                /\ respuesta' = [estado |-> "json_400", numeros |-> <<>>]
        /\ UNCHANGED <<peticion, genVars, valVars, dfVars, estVars, loteVars, detVars,
                 pruebaVars, cacheVars>>

\* --------------------------------------------------------- its requests
MaxCantidadWeb == 10

Peticiones ==
    { Dict([semilla |-> eS, cantidad |-> eQ, n |-> eN, m |-> eM,
            a |-> eA, b |-> eB, c |-> eC, c_const |-> eK]) :
        eS \in Entradas({1, 3}),
        eQ \in Entradas({0, 5, MaxCantidadWeb}),
        eN \in Entradas({0, 5, MaxCantidadWeb}),
        eM \in Entradas({-3, 0, 2, 16}),
        eA \in Entradas({0, 5}),
        eB \in Entradas({1}),
        eC \in Entradas({3}),
        eK \in Entradas({1}) }

Rutas == {"/metodos-congruenciales", "/api/generar-numeros"}

WebInit ==
    /\ GenIdle /\ ValIdle /\ DfIdle /\ EstIdle /\ LoteIdle /\ DetIdle
    /\ PruebaIdle /\ CacheIdle
    /\ peticion \in [ruta : Rutas, metodo : Tipos \cup TiposNoValidos,
                     datos : Peticiones]
    /\ llamadas = <<>>
    /\ respuesta = [estado |-> "pendiente", numeros |-> <<>>]

WebNext == MetodosCongruenciales \/ ApiGenerarNumeros

SpecWeb == WebInit /\ [][WebNext]_vars

\* --------------------------------------------------- claims on the web layer
\* C4: in every request a generator is called only after
\* validar_parametros_congruencial was called with the same method and
\* parameters and approved them; parameters the validator rejects never reach
\* a generator.
C4_ValidatorBeforeGenerator ==
    \A i \in 1..Len(llamadas) :
        llamadas[i].componente = "generador" =>
            /\ \E j \in 1..(i - 1) :
                  /\ llamadas[j].componente = "validador"
                  /\ llamadas[j].tipo = llamadas[i].tipo
                  /\ llamadas[j].parametros = llamadas[i].parametros
            /\ errores_de(llamadas[i].tipo, llamadas[i].parametros) = <<>>

\* ------------------------------------------- more claims on the generators
\* C11: for every generator and every count >= 1 the loop ends after exactly
\* count steps and the call returns a sequence of exactly count elements,
\* whatever the other arguments.
C11_LengthIsCount ==
    (n >= 1 /\ pc # "bucle") =>
        pc = "retornado" /\ it = n /\ Len(numeros) = n

RECURSIVE C13_xm(_)
C13_xm(i) == IF i = 0 THEN semilla ELSE PyMod(a * C13_xm(i - 1), m)

RECURSIVE C13_xq(_)
C13_xq(i) ==
    IF i = 0 THEN semilla
    ELSE PyMod(a * C13_xq(i - 1) * C13_xq(i - 1) + b * C13_xq(i - 1) + c, m)

\* C13: the multiplicative generator's i-th output is x_i / m with
\* x_i = (a*x_(i-1)) mod m, the quadratic generator's is x_i / m with
\* x_i = (a*x_(i-1)^2 + b*x_(i-1) + c) mod m, x_0 = seed, for every i in 1..n;
\* the multiplicative generator returns what the linear generator returns
\* with increment 0.
C13_MultiplicativoCuadraticoRecurrence ==
    pc # "error" =>
        /\ tipo = "multiplicativo" =>
             /\ \A i \in 1..Len(numeros) : numeros[i] = TrueDiv(C13_xm(i), m)
             /\ pc = "retornado" =>
                  numeros = secuencia("lineal", semilla, a, 0, 0, m, n)
        /\ tipo = "cuadratico" =>
             \A i \in 1..Len(numeros) : numeros[i] = TrueDiv(C13_xq(i), m)
        /\ pc = "retornado" => \A i \in 1..n : i <= Len(numeros)

C13_Witness ==
    /\ pc = "retornado" /\ tipo = "multiplicativo" /\ Len(numeros) = MaxN
    /\ semilla = 1 /\ a = 5 /\ m = 16
    /\ numeros[1] = <<5, 16>> /\ numeros[2] = <<9, 16>>

\* ============================================================== statistics
\* congruenciales.py (calcular_estadisticos_basicos) and estadisticos.py.
\* A float is the exact rational <<p, q>> in lowest terms with q > 0; the
\* results numpy gives for x/0 are <<1, 0>> (inf), <<-1, 0>> (-inf) and
\* <<0, 0>> (nan).  A float that is a square root is kept as a Radical:
\* [num |-> u, raiz_de |-> r] stands for u / sqrt(r), r > 0.
MaxLen == 4

Cero == <<0, 1>>
Uno == <<1, 1>>
NaN == <<0, 0>>
Entero(k) == <<k, 1>>
Signo(k) == IF k > 0 THEN 1 ELSE IF k < 0 THEN -1 ELSE 0
Finito(u) == u[2] # 0

RatSuma(u, v) ==
    IF ~Finito(u) \/ ~Finito(v) THEN NaN
    ELSE LET g == GCD(u[2], v[2])
         IN  TrueDiv(u[1] * (v[2] \div g) + v[1] * (u[2] \div g),
                     (u[2] \div g) * v[2])
RatOpuesto(u) == <<-u[1], u[2]>>
RatResta(u, v) == RatSuma(u, RatOpuesto(v))
RatProd(u, v) ==
    IF ~Finito(u) \/ ~Finito(v) THEN NaN
    ELSE LET g1 == GCD(Abs(u[1]), v[2])
             g2 == GCD(Abs(v[1]), u[2])
         IN  IF u[1] = 0 \/ v[1] = 0 THEN Cero
             ELSE <<(u[1] \div g1) * (v[1] \div g2),
                    (u[2] \div g2) * (v[2] \div g1)>>
\* float / float as numpy computes it: x/0 is inf, -inf or nan, never raised.
RatDiv(u, v) ==
    IF ~Finito(u) \/ ~Finito(v) THEN NaN
    ELSE IF v[1] = 0 THEN <<Signo(u[1]), 0>>
    ELSE RatProd(u, <<Signo(v[1]) * v[2], Abs(v[1])>>)
RatMenor(u, v) == u[1] * v[2] < v[1] * u[2]

RECURSIVE RatPotencia(_, _)
RatPotencia(u, k) == IF k = 0 THEN Uno ELSE RatProd(u, RatPotencia(u, k - 1))

RECURSIVE np_sum(_)
np_sum(s) == IF s = <<>> THEN Cero ELSE RatSuma(Head(s), np_sum(Tail(s)))

\* np.mean: the mean of an empty array is nan (a warning, nothing raised).
np_mean(s) == RatDiv(np_sum(s), Entero(Len(s)))

\* np.sum((numeros - media) ** k) / n
momento_central(s, k) ==
    LET mu == np_mean(s)
    IN  RatDiv(np_sum([j \in 1..Len(s) |-> RatPotencia(RatResta(s[j], mu), k)]),
               Entero(Len(s)))

\* np.var: population variance (divisor N).
np_var(s) == momento_central(s, 2)

Radical(u, r) ==
    IF u = Cero THEN [num |-> Cero, raiz_de |-> Uno]
    ELSE [num |-> u, raiz_de |-> r]
\* np.std: sqrt(var) = var / sqrt(var).
np_std(s) == LET v == np_var(s) IN Radical(v, v)

RECURSIVE insertar(_, _)
insertar(v, s) ==
    IF s = <<>> THEN <<v>>
    ELSE IF RatMenor(Head(s), v) THEN <<Head(s)>> \o insertar(v, Tail(s))
    ELSE <<v>> \o s
RECURSIVE np_sort(_)
np_sort(s) == IF s = <<>> THEN <<>> ELSE insertar(Head(s), np_sort(Tail(s)))

\* np.min, np.max of a non-empty array (an empty one raises ValueError).
np_min(s) == np_sort(s)[1]
np_max(s) == np_sort(s)[Len(s)]

\* np.percentile, default method 'linear', of a non-empty array.
np_percentile(s, q) ==
    LET o == np_sort(s)
        pos == TrueDiv((Len(s) - 1) * q, 100)
        lo == pos[1] \div pos[2]
        frac == RatResta(pos, Entero(lo))
    IN  IF lo + 2 > Len(s) THEN o[lo + 1]
        ELSE RatSuma(o[lo + 1], RatProd(frac, RatResta(o[lo + 2], o[lo + 1])))

\* np.median of a non-empty array.
np_median(s) == np_percentile(s, 50)

\* ------------------------------------------------ the statistics functions
\* `if not numeros`: the list is empty.
no_numeros_nunca(s) == FALSE
no_numeros(s) == Len(s) = 0

REPORTE_VACIO == <<>>
RadicalCero == [num |-> Cero, raiz_de |-> Uno]

\* What a call of a statistics function comes to: it returned `reporte` or
\* raised; `evaluadas` names the computations it evaluated on the way.
Retorna(r, ev) == [estado |-> "retornado", reporte |-> r, evaluadas |-> ev]
Lanza(ev) == [estado |-> "error", reporte |-> REPORTE_VACIO, evaluadas |-> ev]

reporte_basico(s) ==
    [media |-> np_mean(s),
     mediana |-> np_median(s),
     desviacion_estandar |-> np_std(s),
     varianza |-> np_var(s),
     minimo |-> np_min(s),
     maximo |-> np_max(s),
     rango |-> RatResta(np_max(s), np_min(s)),
     primer_cuartil |-> np_percentile(s, 25),
     tercer_cuartil |-> np_percentile(s, 75)]

calcular_estadisticos_basicos(s) ==
    IF no_numeros(s) THEN Retorna(REPORTE_VACIO, {})
    ELSE IF Len(s) = 0
    THEN \* np.mean .. np.var give nan; np.min of an empty array raises
         Lanza({"mean", "median", "std", "var", "min"})
    ELSE Retorna(reporte_basico(s),
                 {"mean", "median", "std", "var", "min", "max", "percentile"})

frecuencia(s, v) == Cardinality({j \in 1..Len(s) : s[j] = v})

\* The keys of Counter(numeros): the distinct values in order of first
\* occurrence.
RECURSIVE claves_contador(_)
claves_contador(s) ==
    IF s = <<>> THEN <<>>
    ELSE LET r == claves_contador(SubSeq(s, 1, Len(s) - 1))
             u == s[Len(s)]
         IN  IF \E j \in 1..Len(r) : r[j] = u THEN r ELSE Append(r, u)

calcular_moda(s) ==
    LET max_frecuencia ==
            CHOOSE f \in 1..Len(s) :
                /\ \E j \in 1..Len(s) : frecuencia(s, s[j]) = f
                /\ \A j \in 1..Len(s) : frecuencia(s, s[j]) <= f
        es_moda(v) == frecuencia(s, v) = max_frecuencia
    IN  SelectSeq(claves_contador(s), es_moda)

\* `if desviacion == 0`
desviacion_nula_nunca(d) == FALSE
desviacion_nula(d) == d.num = Cero

\* calcular_asimetria and calcular_curtosis: the value returned and whether
\* the division by a power of the standard deviation was evaluated.
calcular_asimetria(s) ==
    IF Len(s) < 3 THEN [valor |-> RadicalCero, divide |-> FALSE]
    ELSE IF desviacion_nula(np_std(s))
    THEN [valor |-> RadicalCero, divide |-> FALSE]
    ELSE \* m3 / desviacion^3 = (m3 / var) / sqrt(var)
         [valor |-> Radical(RatDiv(momento_central(s, 3), np_var(s)),
                            np_var(s)),
          divide |-> TRUE]

calcular_curtosis(s) ==
    IF Len(s) < 4 THEN [valor |-> Cero, divide |-> FALSE]
    ELSE IF desviacion_nula(np_std(s))
    THEN [valor |-> Cero, divide |-> FALSE]
    ELSE \* m4 / desviacion^4 - 3 = m4 / var^2 - 3
         [valor |-> RatResta(RatDiv(momento_central(s, 4),
                                    RatProd(np_var(s), np_var(s))),
                             Entero(3)),
          divide |-> TRUE]

\* `float(desviacion / media) if media != 0 else 0`
coeficiente_variacion(s) ==
    IF np_mean(s) # Cero
    THEN [valor |-> Radical(RatDiv(np_var(s), np_mean(s)), np_var(s)),
          divide |-> TRUE]
    ELSE [valor |-> RadicalCero, divide |-> FALSE]

reporte_completo(s) ==
    [n |-> Len(s),
     media |-> np_mean(s),
     mediana |-> np_median(s),
     moda |-> calcular_moda(s),
     desviacion_estandar |-> np_std(s),
     varianza |-> np_var(s),
     minimo |-> np_min(s),
     maximo |-> np_max(s),
     rango |-> RatResta(np_max(s), np_min(s)),
     primer_cuartil |-> np_percentile(s, 25),
     tercer_cuartil |-> np_percentile(s, 75),
     rango_intercuartil |->
         RatResta(np_percentile(s, 75), np_percentile(s, 25)),
     asimetria |-> calcular_asimetria(s).valor,
     curtosis |-> calcular_curtosis(s).valor,
     coeficiente_variacion |-> coeficiente_variacion(s).valor]

calcular_estadisticos(s) ==
    IF no_numeros(s) THEN Retorna(REPORTE_VACIO, {})
    ELSE IF Len(s) = 0
    THEN \* np.mean, np.median give nan; max() of no frequencies raises
         Lanza({"mean", "median", "moda"})
    ELSE Retorna(reporte_completo(s),
                 {"mean", "median", "moda", "std", "var", "min", "max",
                  "percentile"}
                 \cup (IF calcular_asimetria(s).divide
                       THEN {"asimetria/desviacion"} ELSE {})
                 \cup (IF calcular_curtosis(s).divide
                       THEN {"curtosis/desviacion"} ELSE {})
                 \cup (IF coeficiente_variacion(s).divide
                       THEN {"desviacion/media"} ELSE {}))

\* ------------------------------------------------------------- histogram
\* np.histogram(a, bins) for an int bins >= 1 and the default range: the
\* outer edges are min and max (0 and 1 for an empty array), widened by 0.5
\* on both sides when they coincide; bins+1 evenly spaced edges; every bin is
\* half-open except the last, which includes its right edge.
primer_borde(s) ==
    LET lo == IF s = <<>> THEN Cero ELSE np_min(s)
        hi == IF s = <<>> THEN Uno ELSE np_max(s)
    IN  IF lo = hi THEN RatResta(lo, <<1, 2>>) ELSE lo
ultimo_borde(s) ==
    LET lo == IF s = <<>> THEN Cero ELSE np_min(s)
        hi == IF s = <<>> THEN Uno ELSE np_max(s)
    IN  IF lo = hi THEN RatSuma(hi, <<1, 2>>) ELSE hi

bordes(s, bins) ==
    LET ancho == RatResta(ultimo_borde(s), primer_borde(s))
    IN  [k \in 1..(bins + 1) |->
            RatSuma(primer_borde(s),
                    RatDiv(RatProd(Entero(k - 1), ancho), Entero(bins)))]

\* The bin (1..bins) an element falls in.
indice_bin_sin_maximo(v, s, bins) ==
    LET t == RatDiv(RatProd(RatResta(v, primer_borde(s)), Entero(bins)),
                    RatResta(ultimo_borde(s), primer_borde(s)))
    IN  (t[1] \div t[2]) + 1
indice_bin(v, s, bins) ==
    LET t == RatDiv(RatProd(RatResta(v, primer_borde(s)), Entero(bins)),
                    RatResta(ultimo_borde(s), primer_borde(s)))
        k == t[1] \div t[2]
    IN  IF k = bins THEN bins ELSE k + 1

np_histogram(s, bins) ==
    [hist |-> [k \in 1..bins |->
                  Cardinality({j \in 1..Len(s) : indice_bin(s[j], s, bins) = k})],
     edges |-> bordes(s, bins)]

\* format(v, '.3f'): v rounded to thousandths (ties to even), as the integer
\* number of thousandths.
formato_3f(v) ==
    LET abajo == (v[1] * 1000) \div v[2]
        resto == 2 * (v[1] * 1000 - abajo * v[2])
    IN  IF resto > v[2] \/ (resto = v[2] /\ abajo % 2 = 1)
        THEN abajo + 1 ELSE abajo

generar_histograma(s, bins) ==
    IF no_numeros(s) THEN Retorna(REPORTE_VACIO, {})
    ELSE IF bins < 1
    THEN \* ValueError: `bins` must be positive
         Lanza({"histogram"})
    ELSE LET edges == np_histogram(s, bins).edges
         IN  Retorna(
                 [frecuencias |-> np_histogram(s, bins).hist,
                  bins_edges |-> edges,
                  bins_centers |->
                      [k \in 1..(Len(edges) - 1) |->
                          RatDiv(RatSuma(edges[k], edges[k + 1]), Entero(2))],
                  bins_ranges |->
                      [k \in 1..(Len(edges) - 1) |->
                          <<formato_3f(edges[k]), formato_3f(edges[k + 1])>>],
                  ancho_bin |-> RatResta(edges[2], edges[1])],
                 {"histogram"})

\* ----------------------------------------------------- serial correlation
\* A Python slice bound: negative counts from the end, all clipped to 0..len.
py_indice(k, len) ==
    IF k < 0 THEN (IF k + len < 0 THEN 0 ELSE k + len)
    ELSE IF k > len THEN len ELSE k
\* s[desde:hasta]
rebanada(s, desde, hasta) ==
    SubSeq(s, py_indice(desde, Len(s)) + 1, py_indice(hasta, Len(s)))

\* np.corrcoef(x, y) stacks x and y as two rows, which raises ValueError when
\* their lengths differ; otherwise the coefficient of the two windows, kept
\* as the pair of windows it is computed from.
correlacion_serial(s, lag) ==
    IF Len(s) <= lag THEN Retorna([clase |-> "0.0", x |-> <<>>, y |-> <<>>], {})
    ELSE LET xs == rebanada(s, 0, -lag)
             ys == rebanada(s, lag, Len(s))
         IN  IF Len(xs) # Len(ys) THEN Lanza({"corrcoef"})
             ELSE Retorna([clase |-> "corrcoef", x |-> xs, y |-> ys],
                          {"corrcoef"})

\* --------------------------------------- calls of the statistics functions
Valores == {<<-1, 1>>, <<1, 2>>, <<1, 1>>, <<5, 1>>}
Funciones ==
    {"calcular_estadisticos_basicos", "calcular_estadisticos",
     "generar_histograma", "correlacion_serial"}
BinsPosibles == {0, 1, 2, 3, 10}
LagsPosibles == {-1, 0, 1, 2}

EstInit ==
    /\ funcion \in Funciones
    /\ datos \in SeqsHasta(Valores, MaxLen)
    /\ arg \in (IF funcion = "generar_histograma" THEN BinsPosibles
                ELSE IF funcion = "correlacion_serial" THEN LagsPosibles
                ELSE {0})
    /\ reporte = REPORTE_VACIO /\ evaluadas = {} /\ epc = "llamada"

\* One call runs to its return or to the exception it raises.
Llamada(f, r) ==
    /\ epc = "llamada" /\ funcion = f
    /\ epc' = r.estado
    /\ reporte' = r.reporte
    /\ evaluadas' = r.evaluadas
    /\ UNCHANGED <<funcion, datos, arg>>
    /\ UNCHANGED <<genVars, valVars, dfVars, webVars, loteVars, detVars,
                 pruebaVars, cacheVars>>

CalcularEstadisticosBasicos ==
    Llamada("calcular_estadisticos_basicos", calcular_estadisticos_basicos(datos))
CalcularEstadisticos ==
    Llamada("calcular_estadisticos", calcular_estadisticos(datos))
GenerarHistograma ==
    Llamada("generar_histograma", generar_histograma(datos, arg))
CorrelacionSerial ==
    Llamada("correlacion_serial", correlacion_serial(datos, arg))

EstNext ==
    \/ CalcularEstadisticosBasicos
    \/ CalcularEstadisticos
    \/ GenerarHistograma
    \/ CorrelacionSerial

EstadisticosInit ==
    /\ EstInit
    /\ GenIdle /\ ValIdle /\ DfIdle /\ WebIdle /\ LoteIdle /\ DetIdle
    /\ PruebaIdle /\ CacheIdle

SpecEst == EstadisticosInit /\ [][EstNext]_vars

\* ------------------------------------------------ claims on the statistics
\* C16: on an empty list calcular_estadisticos_basicos, calcular_estadisticos
\* and generar_histograma (for every bins) return the empty report, raise
\* nothing and evaluate no mean, mode, percentile or bin computation.
C16_EmptyInputEmptyReport ==
    (/\ epc # "llamada"
     /\ funcion \in {"calcular_estadisticos_basicos", "calcular_estadisticos",
                     "generar_histograma"}
     /\ datos = <<>>)
        => /\ epc = "retornado"
           /\ DOMAIN reporte = {}
           /\ evaluadas = {}

C16_Witness ==
    /\ epc = "retornado" /\ funcion = "generar_histograma"
    /\ datos = <<>> /\ arg = 0 /\ DOMAIN reporte = {}

\* C17: the basic statistics of a single-element list [v] are
\* min = max = mean = median = v and std-dev = variance = range = IQR = 0, the
\* report of calcular_estadisticos_basicos holding an IQR entry equal to the
\* third quartile minus the first.
C17_UnElemento(r, v) ==
    /\ r.minimo = v /\ r.maximo = v /\ r.media = v /\ r.mediana = v
    /\ r.desviacion_estandar = RadicalCero
    /\ r.varianza = Cero /\ r.rango = Cero
    /\ r.primer_cuartil = v /\ r.tercer_cuartil = v
C17_SingleElementReport ==
    (/\ epc # "llamada"
     /\ funcion \in {"calcular_estadisticos_basicos", "calcular_estadisticos"}
     /\ Len(datos) = 1)
        => /\ epc = "retornado"
           /\ C17_UnElemento(reporte, datos[1])
           /\ "rango_intercuartil" \in DOMAIN reporte
           /\ reporte.rango_intercuartil =
                  RatResta(reporte.tercer_cuartil, reporte.primer_cuartil)
           /\ reporte.rango_intercuartil = Cero

\* C18: skewness is 0.0 for every list shorter than 3 or of zero standard
\* deviation, excess kurtosis is 0.0 for every list shorter than 4 or of zero
\* standard deviation, the coefficient of variation is 0 whenever the mean
\* is 0, and in none of these cases is the division by the standard
\* deviation, respectively by the mean, evaluated.
C18_constante == \A j, k \in 1..Len(datos) : datos[j] = datos[k]
RECURSIVE C18_suma(_)
C18_suma(k) ==
    IF k = 0 THEN Cero
    ELSE LET t == C18_suma(k - 1)
         IN  TrueDiv(t[1] * datos[k][2] + datos[k][1] * t[2], t[2] * datos[k][2])
C18_WitnessMediaCero ==
    /\ epc = "retornado" /\ funcion = "calcular_estadisticos"
    /\ datos = <<<<-1, 1>>, <<1, 1>>, <<1, 1>>, <<-1, 1>>>>
    /\ reporte.coeficiente_variacion = RadicalCero
    /\ "curtosis/desviacion" \in evaluadas

\* C19: for a non-empty list and bins = b >= 1 generar_histograma returns b
\* frequencies, b+1 edges, b centers and b range labels; the edges are
\* non-decreasing from the first to the last; the frequencies sum to the
\* length of the list, every element (the maximum too) being counted in
\* exactly one bin.
C19_min == CHOOSE v \in {datos[j] : j \in 1..Len(datos)} :
               \A j \in 1..Len(datos) : ~RatMenor(datos[j], v)
C19_max == CHOOSE v \in {datos[j] : j \in 1..Len(datos)} :
               \A j \in 1..Len(datos) : ~RatMenor(v, datos[j])
RECURSIVE C19_total(_)
C19_total(f) == IF f = <<>> THEN 0 ELSE Head(f) + C19_total(Tail(f))
C19_en_bin(v, k) ==
    /\ ~RatMenor(v, reporte.bins_edges[k])
    /\ \/ RatMenor(v, reporte.bins_edges[k + 1])
       \/ k = arg /\ v = reporte.bins_edges[k + 1]
C19_Forma(primero, ultimo) ==
    (/\ epc # "llamada" /\ funcion = "generar_histograma"
     /\ datos # <<>> /\ arg >= 1)
        => /\ epc = "retornado"
           /\ Len(reporte.frecuencias) = arg
           /\ Len(reporte.bins_edges) = arg + 1
           /\ Len(reporte.bins_centers) = arg
           /\ Len(reporte.bins_ranges) = arg
           /\ reporte.bins_edges[1] = primero
           /\ reporte.bins_edges[arg + 1] = ultimo
           /\ \A k \in 1..arg :
                  ~RatMenor(reporte.bins_edges[k + 1], reporte.bins_edges[k])
           /\ C19_total(reporte.frecuencias) = Len(datos)
           /\ \A k \in 1..arg :
                  reporte.frecuencias[k] =
                      Cardinality({j \in 1..Len(datos) : C19_en_bin(datos[j], k)})
           /\ \A j \in 1..Len(datos) :
                  Cardinality({k \in 1..arg : C19_en_bin(datos[j], k)}) = 1

\* As stated: the edges run from min(seq) to max(seq).
C19_EdgesFromMinToMax == C19_Forma(C19_min, C19_max)

\* Amended: from min to max when they differ, else from min - 0.5 to
\* max + 0.5.
C19_HistogramShape ==
    C19_Forma(IF C19_min = C19_max THEN RatResta(C19_min, <<1, 2>>) ELSE C19_min,
              IF C19_min = C19_max THEN RatSuma(C19_max, <<1, 2>>) ELSE C19_max)

C19_Witness ==
    /\ epc = "retornado" /\ funcion = "generar_histograma" /\ arg = 10
    /\ datos = <<<<1, 2>>, <<5, 1>>, <<-1, 1>>, <<5, 1>>>>
    /\ Len(reporte.bins_edges) = 11
    /\ reporte.frecuencias = <<1, 0, 1, 0, 0, 0, 0, 0, 0, 2>>

\* C20: correlacion_serial(seq, k) returns 0.0 whenever len(seq) <= k, and for
\* every k >= 0 with len(seq) = n > k it correlates the windows seq[0:n-k]
\* and seq[k:n], both of length n-k, never an empty one.
C20_SerialWindows ==
    (epc # "llamada" /\ funcion = "correlacion_serial" /\ arg >= 0)
        => /\ epc = "retornado"
           /\ IF Len(datos) <= arg THEN reporte.clase = "0.0"
              ELSE /\ reporte.clase = "corrcoef"
                   /\ reporte.x = SubSeq(datos, 1, Len(datos) - arg)
                   /\ reporte.y = SubSeq(datos, arg + 1, Len(datos))
                   /\ Len(reporte.x) = Len(datos) - arg
                   /\ Len(reporte.y) = Len(datos) - arg
                   /\ reporte.x # <<>>
C20_LagPositivo ==
    (epc # "llamada" /\ funcion = "correlacion_serial" /\ arg >= 1)
        => /\ epc = "retornado"
           /\ IF Len(datos) <= arg THEN reporte.clase = "0.0"
              ELSE /\ reporte.clase = "corrcoef"
                   /\ reporte.x = SubSeq(datos, 1, Len(datos) - arg)
                   /\ reporte.y = SubSeq(datos, arg + 1, Len(datos))
                   /\ reporte.x # <<>>

\* ========================================================= batches
\* congruenciales.py: generar_lote_congruencial(tipo, parametros, n_lotes).
MaxLotes == 3
MaxNLote == 2
N_POR_DEFECTO == 100

\* parametros.get('semilla') + i
semilla_del_lote_fija(p, i) == p["semilla"]
semilla_del_lote(p, i) == p["semilla"] + i

\* The arguments of the generator call of batch i, as the branch of tipo
\* reads them from parametros.
argumentos_del_lote(t, p, i) ==
    argumentos(t, semilla_del_lote(p, i), p["a"],
               IF t = "cuadratico" THEN p["b"] ELSE 0,
               IF t = "cuadratico" THEN p["c_const"]
               ELSE IF t = "lineal" THEN p["c"] ELSE 0,
               p["m"], Defecto(p, "n", N_POR_DEFECTO))

\* What the generator returns for these arguments.
generar(t, g) ==
    secuencia(t, g.semilla, g.a,
              IF t = "cuadratico" THEN g.b ELSE 0,
              IF t = "cuadratico" THEN g.c_const
              ELSE IF t = "lineal" THEN g.c ELSE 0,
              g.m, g.n)

\* [num for lote in resultados['lotes'] for num in lote]
RECURSIVE todos_numeros(_)
todos_numeros(lotes) ==
    IF lotes = <<>> THEN <<>> ELSE Head(lotes) \o todos_numeros(Tail(lotes))

ParametrosLote ==
    [semilla : {1, 2}, a : {1, 5}, b : {1}, c : {3}, c_const : {3},
     m : {0, 3, 16}, n : 0..MaxNLote]

LoteInit ==
    /\ ltipo \in Tipos \cup {"mixto"}
    /\ lparametros \in ParametrosLote
    /\ n_lotes \in 0..MaxLotes
    /\ lote_i = 0
    /\ resultados = [lotes |-> <<>>, estadisticas_por_lote |-> <<>>,
                     estadisticas_globales |-> REPORTE_VACIO]
    /\ generadas = <<>>
    /\ lpc = "bucle"

\* One pass of `for i in range(n_lotes)`.
LoteIter ==
    /\ lpc = "bucle" /\ lote_i < n_lotes
    /\ IF ltipo \notin Tipos
       THEN \* raise ValueError("Tipo de generador no valido: ...")
            /\ lpc' = "error"
            /\ UNCHANGED <<lote_i, resultados, generadas>>
       ELSE LET g == argumentos_del_lote(ltipo, lparametros, lote_i)
            IN  /\ generadas' = Append(generadas, g)
                /\ IF generador_falla(g.m, g.n)
                   THEN /\ lpc' = "error"
                        /\ UNCHANGED <<lote_i, resultados>>
                   ELSE LET stats == calcular_estadisticos_basicos(generar(ltipo, g))
                        IN  IF stats.estado = "error"
                            THEN /\ lpc' = "error"
                                 /\ UNCHANGED <<lote_i, resultados>>
                            ELSE /\ resultados' =
                                      [resultados EXCEPT
                                          !.lotes = Append(@, generar(ltipo, g)),
                                          !.estadisticas_por_lote =
                                              Append(@, stats.reporte)]
                                 /\ lote_i' = lote_i + 1
                                 /\ lpc' = "bucle"
    /\ UNCHANGED <<ltipo, lparametros, n_lotes>>
    /\ UNCHANGED <<genVars, valVars, dfVars, webVars, estVars, detVars,
                 pruebaVars, cacheVars>>

\* After the loop: the global statistics and the return.
LoteGlobales ==
    /\ lpc = "bucle" /\ lote_i >= n_lotes
    /\ LET stats == calcular_estadisticos_basicos(todos_numeros(resultados.lotes))
       IN  /\ lpc' = IF stats.estado = "error" THEN "error" ELSE "retornado"
           /\ resultados' =
                  [resultados EXCEPT !.estadisticas_globales = stats.reporte]
    /\ UNCHANGED <<ltipo, lparametros, n_lotes, lote_i, generadas>>
    /\ UNCHANGED <<genVars, valVars, dfVars, webVars, estVars, detVars,
                 pruebaVars, cacheVars>>

LoteNext == LoteIter \/ LoteGlobales

LotesInit ==
    /\ LoteInit
    /\ GenIdle /\ ValIdle /\ DfIdle /\ WebIdle /\ EstIdle /\ DetIdle
    /\ PruebaIdle /\ CacheIdle

SpecLote == LotesInit /\ [][LoteNext]_vars

\* ------------------------------------------------- claims on the batches
C14_semilla(k) == lparametros.semilla + (k - 1)
C14_lote(k) ==
    secuencia(ltipo, C14_semilla(k), lparametros.a,
              IF ltipo = "cuadratico" THEN lparametros.b ELSE 0,
              IF ltipo = "cuadratico" THEN lparametros.c_const
              ELSE IF ltipo = "lineal" THEN lparametros.c ELSE 0,
              lparametros.m, lparametros.n)
RECURSIVE C14_concatenacion(_)
C14_concatenacion(k) ==
    IF k = 0 THEN <<>> ELSE C14_concatenacion(k - 1) \o C14_lote(k)

\* C14: for a recognised type and parameters the generator accepts, the call
\* runs the generator exactly n_lotes times, batch i (0-based) with seed + i
\* and otherwise the same parameters; it returns the batches in index order,
\* one statistics report per batch, and the global statistics of the
\* concatenation of the batches in order (n_lotes * n values).
C14_BatchesInOrder ==
    (ltipo \in Tipos /\ ~generador_falla(lparametros.m, lparametros.n))
        => /\ lpc # "error"
           /\ Len(generadas) = lote_i
           /\ Len(resultados.lotes) = lote_i
           /\ Len(resultados.estadisticas_por_lote) = lote_i
           /\ \A k \in 1..lote_i :
                  /\ generadas[k].semilla = C14_semilla(k)
                  /\ \A f \in DOMAIN generadas[k] \ {"semilla"} :
                         generadas[k][f] = lparametros[f]
                  /\ resultados.lotes[k] = C14_lote(k)
                  /\ resultados.estadisticas_por_lote[k] =
                         calcular_estadisticos_basicos(C14_lote(k)).reporte
           /\ lpc = "retornado" =>
                  /\ lote_i = n_lotes
                  /\ Len(C14_concatenacion(n_lotes)) = n_lotes * lparametros.n
                  /\ resultados.estadisticas_globales =
                         calcular_estadisticos_basicos(
                             C14_concatenacion(n_lotes)).reporte

C14_Witness ==
    /\ lpc = "retornado" /\ ltipo = "lineal" /\ n_lotes = MaxLotes
    /\ lparametros.semilla = 1 /\ lparametros.a = 5 /\ lparametros.m = 16
    /\ lparametros.n = 2
    /\ resultados.lotes[1] = <<<<1, 2>>, <<11, 16>>>>
    /\ resultados.lotes[2] = <<<<13, 16>>, <<1, 4>>>>
    /\ resultados.estadisticas_globales.minimo = <<1, 8>>

\* C15: the batching variant called with an unrecognised generator type, for
\* any n_lotes >= 0, ends with a returned report and never with a raised
\* error.
C15_UnknownTypeReturnsReport == ltipo \notin Tipos => lpc # "error"

\* ===================================================== successive calls
\* One caller calls the generators several times, with a statistics call on
\* the numbers returned in between, as the loop of generar_lote_congruencial
\* does.  Each call of a generator starts with `x = semilla` and
\* `numeros = []`.
MaxLlamadas == 3

\* `numeros = []`: the list a call starts with, given the one the previous
\* call ended with.
lista_conservada(anterior) == anterior
lista_nueva(anterior) == <<>>

ArgumentosDet ==
    { g \in [tipo : Tipos, semilla : {1, 2}, a : {5}, b : {0, 1}, c : {0, 3},
             m : {0, 16}, n : {2}] :
        /\ g.b = (IF g.tipo = "cuadratico" THEN 1 ELSE 0)
        /\ g.c = (IF g.tipo = "multiplicativo" THEN 0 ELSE 3) }

llamada_actual ==
    [tipo |-> tipo, semilla |-> semilla, a |-> a, b |-> b, c |-> c,
     m |-> m, n |-> n]

Llamar ==
    /\ pc \in {"", "retornado", "error"}
    /\ n_llamadas < MaxLlamadas
    /\ \E g \in ArgumentosDet :
          /\ tipo' = g.tipo /\ semilla' = g.semilla /\ a' = g.a /\ b' = g.b
          /\ c' = g.c /\ m' = g.m /\ n' = g.n
          /\ x' = g.semilla
    /\ numeros' = lista_nueva(numeros)
    /\ it' = 0
    /\ pc' = "bucle"
    /\ previas' = IF pc = "" THEN previas
                  ELSE Append(previas, [llamada |-> llamada_actual,
                                        estado |-> pc, numeros |-> numeros])
    /\ n_llamadas' = n_llamadas + 1
    /\ UNCHANGED <<valVars, dfVars, webVars, estVars, loteVars,
                 pruebaVars, cacheVars>>

\* calcular_estadisticos_basicos(numeros) on what the last call returned.
EstadisticosEntre ==
    /\ pc = "retornado"
    /\ epc = "" \/ datos # numeros
    /\ funcion' = "calcular_estadisticos_basicos"
    /\ datos' = numeros
    /\ arg' = 0
    /\ reporte' = calcular_estadisticos_basicos(numeros).reporte
    /\ evaluadas' = calcular_estadisticos_basicos(numeros).evaluadas
    /\ epc' = calcular_estadisticos_basicos(numeros).estado
    /\ UNCHANGED <<genVars, valVars, dfVars, webVars, loteVars, detVars,
                 pruebaVars, cacheVars>>

DetNext ==
    \/ Llamar
    \/ LinealIter \/ MultiplicativoIter \/ CuadraticoIter \/ Retornar
    \/ EstadisticosEntre

SucesivasInit ==
    /\ GenIdle /\ ValIdle /\ DfIdle /\ WebIdle /\ EstIdle /\ LoteIdle
    /\ DetIdle
    /\ PruebaIdle /\ CacheIdle

SpecDet == SucesivasInit /\ [][DetNext]_vars

\* C12: two calls of the linear generator with identical (seed, a, c, m,
\* count) end alike and return identical sequences, whichever generator and
\* statistics calls were made before or between them.
C12_Deterministic ==
    \A j \in 1..Len(previas) :
        previas[j].llamada.tipo = "lineal" =>
            /\ \A k \in 1..Len(previas) :
                   previas[k].llamada = previas[j].llamada
                       => /\ previas[k].estado = previas[j].estado
                          /\ previas[k].numeros = previas[j].numeros
            /\ (pc \in {"retornado", "error"}
                /\ llamada_actual = previas[j].llamada)
                   => /\ pc = previas[j].estado
                      /\ numeros = previas[j].numeros

C12_Witness ==
    /\ pc = "retornado" /\ tipo = "lineal" /\ m = 16 /\ n = 2
    /\ Len(previas) = 2
    /\ previas[1].llamada = llamada_actual
    /\ previas[2].llamada.tipo = "cuadratico"
    /\ previas[2].llamada.semilla # semilla
    /\ numeros = previas[1].numeros /\ Len(numeros) = 2
    /\ epc = "retornado" /\ datos = previas[2].numeros

\* ========================================================== the tests
\* congruenciales.py: prueba_uniformidad; estadisticos.py:
\* prueba_bondad_ajuste, prueba_aleatoriedad.  What scipy computes (a
\* statistic's p-value, a comparison with it) is kept as a record of what it
\* is computed from.  Where the outcome of a scipy call depends on the scipy
\* version, every outcome is possible.
ALPHA == <<1, 20>>
BINS_CHI2 == 10
FILAS_MIN_SHAPIRO == 3

\* What a call of a test comes to.
Devuelve(v) == [estado |-> "retornado", excepcion |-> "", veredicto |-> v]
Propaga(ex) == [estado |-> "error", excepcion |-> ex, veredicto |-> <<>>]
NONE == [valor |-> "None"]

p_mayor(p, umbral) == [p |-> p, mayor_que |-> umbral]

\* F(x) of the uniform distribution on [0, 1].
cdf_uniforme(v) ==
    IF RatMenor(v, Cero) THEN Cero ELSE IF RatMenor(Uno, v) THEN Uno ELSE v

RatMax(S) == CHOOSE u \in S : \A v \in S : ~RatMenor(u, v)

\* The statistic of stats.kstest(numeros, 'uniform'), numeros non-empty.
ks_estadistico(s) ==
    LET o == np_sort(s)
        k == Len(s)
    IN  RatMax({RatResta(TrueDiv(j, k), cdf_uniforme(o[j])) : j \in 1..k}
               \cup {RatResta(cdf_uniforme(o[j]), TrueDiv(j - 1, k)) :
                        j \in 1..k})

prueba_uniformidad(s, libs) ==
    IF "scipy" \notin libs
    THEN \* `from scipy import stats` stands before the try
         {Propaga("ImportError")}
    ELSE IF s = <<>>
    THEN {Propaga("ValueError"),
          Devuelve([estadistico_d |-> NaN,
                    p_valor |-> [kstest |-> NaN, n |-> 0],
                    uniforme |-> p_mayor([kstest |-> NaN, n |-> 0], ALPHA),
                    nivel_significancia |-> ALPHA,
                    interpretacion |->
                        [texto |-> "Los numeros son ... (p=...)",
                         p |-> [kstest |-> NaN, n |-> 0]]])}
    ELSE LET p_value == [kstest |-> ks_estadistico(s), n |-> Len(s)]
         IN  {Devuelve([estadistico_d |-> ks_estadistico(s),
                        p_valor |-> p_value,
                        uniforme |-> p_mayor(p_value, ALPHA),
                        nivel_significancia |-> ALPHA,
                        interpretacion |->
                            [texto |-> "Los numeros son ... (p=...)",
                             p |-> p_value]])}

RECURSIVE suma_enteros(_)
suma_enteros(f) == IF f = <<>> THEN 0 ELSE Head(f) + suma_enteros(Tail(f))

prueba_bondad_ajuste(s, dist, libs) ==
    IF "scipy" \notin libs
    THEN \* `from scipy import stats` stands before the try
         {Propaga("ImportError")}
    ELSE IF dist = "uniforme"
    THEN LET frec_obs == np_histogram(s, BINS_CHI2).hist
             \* np.full_like of an int array: len/10 truncated to an int
             frec_esp == [k \in 1..BINS_CHI2 |-> Len(s) \div BINS_CHI2]
             p_value == [chisquare |-> <<frec_obs, frec_esp>>]
             v == [estadistico_chi2 |-> <<frec_obs, frec_esp>>,
                   p_valor |-> p_value,
                   distribucion |-> dist,
                   ajuste_adecuado |-> p_mayor(p_value, ALPHA),
                   interpretacion |->
                       [texto |-> "Los numeros se ajustan ... uniforme (p=...)",
                        p |-> p_value]]
         IN  IF suma_enteros(frec_obs) = suma_enteros(frec_esp)
             THEN {Devuelve(v)}
             ELSE {Devuelve(v), Propaga("ValueError")}
    ELSE IF dist = "normal"
    THEN IF Len(s) < FILAS_MIN_SHAPIRO THEN {Propaga("ValueError")}
         ELSE LET p_value == [shapiro |-> s]
              IN  {Devuelve([estadistico_w |-> s,
                             p_valor |-> p_value,
                             distribucion |-> dist,
                             ajuste_adecuado |-> p_mayor(p_value, ALPHA),
                             interpretacion |->
                                 [texto |->
                                      "Los numeros se ajustan ... normal (p=...)",
                                  p |-> p_value]])}
    ELSE {Devuelve(NONE)}

\* 1 if x > mediana else 0
signo_mediana(v, mediana) ==
    IF Finito(mediana) /\ RatMenor(mediana, v) THEN 1 ELSE 0

\* rachas = 1, plus 1 for every i in 1..len-1 with secuencia[i] # secuencia[i-1]
contar_cambios(sec) ==
    Cardinality({j \in 2..Len(sec) : sec[j] # sec[j - 1]})
contar_rachas(sec) ==
    1 + Cardinality({j \in 2..Len(sec) : sec[j] # sec[j - 1]})

\* Whether `import lib` succeeds: lib is installed, and so is scipy, which
\* statsmodels imports in turn.
importable(lib, libs) ==
    lib \in libs /\ (lib = "statsmodels" => "scipy" \in libs)

NO_DISPONIBLE_RACHAS ==
    [error |-> "Statsmodels no disponible para prueba de rachas",
     interpretacion |-> "No se pudo realizar la prueba de aleatoriedad"]

prueba_aleatoriedad(s, libs) ==
    LET mediana == IF s = <<>> THEN NaN ELSE np_median(s)
        secuencia_signos == [j \in 1..Len(s) |-> signo_mediana(s[j], mediana)]
        rachas == contar_rachas(secuencia_signos)
        n1 == suma_enteros(secuencia_signos)
        n2 == Len(secuencia_signos) - n1
        media_rachas == RatSuma(TrueDiv(2 * n1 * n2, n1 + n2), Uno)
        varianza_rachas ==
            TrueDiv(2 * n1 * n2 * (2 * n1 * n2 - n1 - n2),
                    (n1 + n2) * (n1 + n2) * (n1 + n2 - 1))
        z == IF varianza_rachas = Cero THEN RadicalCero
             ELSE Radical(RatResta(Entero(rachas), media_rachas),
                          varianza_rachas)
        p_value == [norm_cdf_abs |-> z]
    IN  IF ~importable("statsmodels", libs)
        THEN {Devuelve(NO_DISPONIBLE_RACHAS)}
        ELSE IF n1 + n2 = 0
        THEN \* (2 * n1 * n2) / (n1 + n2)
             {Propaga("ZeroDivisionError")}
        ELSE IF (n1 + n2) * (n1 + n2) * (n1 + n2 - 1) = 0
        THEN \* ... / ((n1 + n2)**2 * (n1 + n2 - 1))
             {Propaga("ZeroDivisionError")}
        ELSE IF "scipy" \notin libs THEN {Devuelve(NO_DISPONIBLE_RACHAS)}
        ELSE {Devuelve([numero_rachas |-> rachas,
                        estadistico_z |-> z,
                        p_valor |-> p_value,
                        aleatorio |-> p_mayor(p_value, ALPHA),
                        interpretacion |->
                            [texto |-> "La secuencia es ... (p=...)",
                             p |-> p_value]])}

\* ----------------------------------------------------- calls of the tests
Pruebas == {"prueba_uniformidad", "prueba_bondad_ajuste", "prueba_aleatoriedad"}
Bibliotecas == {"scipy", "statsmodels"}
Distribuciones == {"uniforme", "normal", "exponencial"}

PruebaInit ==
    /\ prueba \in Pruebas
    /\ muestra \in SeqsHasta(Valores, MaxLen)
    /\ distribucion \in (IF prueba = "prueba_bondad_ajuste" THEN Distribuciones
                         ELSE {""})
    /\ instaladas \in SUBSET Bibliotecas
    /\ veredicto = <<>> /\ excepcion = "" /\ ppc = "llamada"

\* One call runs to its return or to the exception it lets through.
LlamadaPrueba(f, salidas) ==
    /\ ppc = "llamada" /\ prueba = f
    /\ \E r \in salidas :
          /\ ppc' = r.estado
          /\ excepcion' = r.excepcion
          /\ veredicto' = r.veredicto
    /\ UNCHANGED <<prueba, muestra, distribucion, instaladas>>
    /\ UNCHANGED <<genVars, valVars, dfVars, webVars, estVars, loteVars,
                   detVars, cacheVars>>

PruebaUniformidad ==
    LlamadaPrueba("prueba_uniformidad", prueba_uniformidad(muestra, instaladas))
PruebaBondadAjuste ==
    LlamadaPrueba("prueba_bondad_ajuste",
                  prueba_bondad_ajuste(muestra, distribucion, instaladas))
PruebaAleatoriedad ==
    LlamadaPrueba("prueba_aleatoriedad",
                  prueba_aleatoriedad(muestra, instaladas))

PruebaNext == PruebaUniformidad \/ PruebaBondadAjuste \/ PruebaAleatoriedad

PruebasInit ==
    /\ PruebaInit
    /\ GenIdle /\ ValIdle /\ DfIdle /\ WebIdle /\ EstIdle /\ LoteIdle
    /\ DetIdle /\ CacheIdle

SpecPrueba == PruebasInit /\ [][PruebaNext]_vars

\* ------------------------------------------------- claims on the tests
C21_signo(j) == IF RatMenor(np_median(muestra), muestra[j]) THEN 1 ELSE 0
C21_alterna == \A j \in 2..Len(muestra) : C21_signo(j) # C21_signo(j - 1)

\* C21: the run count reported by the runs test is 1 plus the number of
\* adjacent positions whose signs (1 if strictly above the median, else 0)
\* differ; when the signs strictly alternate it is the sequence length.
C21_RunCount ==
    (/\ prueba = "prueba_aleatoriedad" /\ ppc = "retornado"
     /\ "numero_rachas" \in DOMAIN veredicto)
        => /\ veredicto.numero_rachas =
                  1 + Cardinality({j \in 2..Len(muestra) :
                                      C21_signo(j) # C21_signo(j - 1)})
           /\ C21_alterna => veredicto.numero_rachas = Len(muestra)

C21_Witness ==
    /\ prueba = "prueba_aleatoriedad" /\ ppc = "retornado"
    /\ muestra = <<<<-1, 1>>, <<5, 1>>, <<-1, 1>>, <<5, 1>>>>
    /\ "numero_rachas" \in DOMAIN veredicto
    /\ veredicto.numero_rachas = 4

\* C22: on every input, the empty and the single-element sequence included,
\* the runs test divides by zero nowhere and returns a verdict record, with
\* z = 0 whenever the variance is 0.
C22_NoDivisionByZero ==
    (/\ prueba = "prueba_aleatoriedad" /\ ppc # "llamada"
     /\ instaladas = Bibliotecas)
        => /\ ppc = "retornado"
           /\ excepcion # "ZeroDivisionError"
           /\ "estadistico_z" \in DOMAIN veredicto
           /\ (\A j \in 1..Len(muestra) : C21_signo(j) = 0)
                  => veredicto.estadistico_z = RadicalCero

\* C23: whenever the import of the optional library fails, each test returns
\* a record with an error field and an interpretation string; the import
\* failure never reaches the caller.
C23_falta ==
    IF prueba = "prueba_aleatoriedad" THEN instaladas # Bibliotecas
    ELSE "scipy" \notin instaladas
C23_ImportFailureTolerated ==
    (ppc # "llamada" /\ C23_falta /\ excepcion \in {"", "ImportError"})
        => /\ ppc = "retornado"
           /\ excepcion = ""
           /\ DOMAIN veredicto = {"error", "interpretacion"}

\* ================================================== the results cache
\* app.py: the module-level dict resultados_simulacion, written by
\* procesar_archivo_congruencial and read by exportar_resultados.  The server
\* (app.run) serves every request in a thread of its own; a handler's steps
\* interleave with those of the other requests where they touch the dict or
\* read the clock.
MaxHilos == 2
MaxReloj == 2
FILAS_HEAD == 5
FILAS_EXPORTADAS == 100

Hilos == 1..MaxHilos

\* The files of UPLOAD_FOLDER, as pandas reads them.
Archivos ==
    [nombre \in {"a.csv", "grande.tsv"} |->
        IF nombre = "a.csv"
        THEN [columnas |-> <<"x">>, filas |-> <<11, 12>>]
        ELSE [columnas |-> <<"x", "y">>,
              filas |-> <<21, 22, 23, 24, 25, 26, 27>>]]

\* What the clients send.
PeticionesCache ==
    { [ruta |-> "/procesar-archivo-congruencial", filename |-> f[1],
       metodo |-> f[2], tipo |-> ""] :
        f \in {<<"", "lineal">>, <<"a.csv", "lineal">>,
               <<"a.csv", "multiplicativo">>, <<"grande.tsv", "lineal">>,
               <<"noexiste.xlsx", "lineal">>} }
    \cup
    { [ruta |-> "/exportar-resultados", filename |-> "", metodo |-> "",
       tipo |-> t] : t \in {"congruencial", "montecarlo"} }

\* datos.head().to_dict('records')
head(filas) ==
    SubSeq(filas, 1, IF Len(filas) < FILAS_HEAD THEN Len(filas) ELSE FILAS_HEAD)

procesar_datos_congruencial(marco, metodo, ahora) ==
    [datos_originales |-> head(marco.filas),
     metodo_aplicado |-> metodo,
     resultados |-> "Procesamiento completado exitosamente",
     timestamp |-> ahora,
     estadisticas |-> [total_registros |-> Len(marco.filas),
                       columnas_procesadas |-> marco.columnas]]

\* resultados_simulacion['congruencial'] = resultados
guardar_mezclando(cache, res) ==
    [k \in DOMAIN cache \cup {"congruencial"} |->
        IF k = "congruencial"
        THEN IF k \in DOMAIN cache
             THEN [res EXCEPT !.estadisticas = cache[k].estadisticas]
             ELSE res
        ELSE cache[k]]
guardar(cache, res) ==
    [k \in DOMAIN cache \cup {"congruencial"} |->
        IF k = "congruencial" THEN res ELSE cache[k]]

Redirect(destino, mensaje) ==
    [clase |-> "redirect", destino |-> destino, flash |-> mensaje]

\* The CSV exportar_resultados sends: 100 rows of np.random.random().
archivo_exportado(t, ahora) ==
    [clase |-> "archivo",
     download_name |-> [prefijo |-> "resultados", tipo |-> t, hora |-> ahora],
     contenido |-> [columnas |-> <<"iteracion", "valor", "metodo">>,
                    n_filas |-> FILAS_EXPORTADAS,
                    valor |-> "np.random.random()",
                    metodo |-> t]]

CacheInit ==
    /\ resultados_simulacion = <<>>
    /\ hilos \in [Hilos -> [peticion : PeticionesCache, pc : {"inicio"},
                            resultados : {<<>>}, respuesta : {<<>>}]]
    /\ reloj = 0
    /\ escrituras = <<>>

Paso(h, cambios) ==
    /\ hilos' = [hilos EXCEPT ![h] = cambios]
    /\ UNCHANGED <<genVars, valVars, dfVars, webVars, estVars, loteVars,
                   detVars, pruebaVars>>

\* procesar_archivo_congruencial up to the local `resultados` (lines 162-182).
Procesar(h) ==
    LET yo == hilos[h]
        filename == yo.peticion.filename
    IN  /\ yo.pc = "inicio"
        /\ yo.peticion.ruta = "/procesar-archivo-congruencial"
        /\ Paso(h,
               IF filename = ""
               THEN [yo EXCEPT !.pc = "fin",
                               !.respuesta =
                                   Redirect("metodos_congruenciales",
                                            "No se especifico archivo")]
               ELSE IF filename \notin DOMAIN Archivos
               THEN \* pandas raises; `except Exception` flashes and redirects
                    [yo EXCEPT !.pc = "fin",
                               !.respuesta =
                                   Redirect("metodos_congruenciales",
                                            "Error al procesar archivo")]
               ELSE [yo EXCEPT !.pc = "guardar",
                               !.resultados =
                                   procesar_datos_congruencial(
                                       Archivos[filename], yo.peticion.metodo,
                                       reloj)])
        /\ UNCHANGED <<resultados_simulacion, reloj, escrituras>>

\* Line 185: the store into the dict.
Guardar(h) ==
    LET yo == hilos[h]
    IN  /\ yo.pc = "guardar"
        /\ resultados_simulacion' = guardar(resultados_simulacion, yo.resultados)
        /\ escrituras' = Append(escrituras,
                                [hilo |-> h, resultados |-> yo.resultados])
        /\ Paso(h, [yo EXCEPT !.pc = "responder"])
        /\ UNCHANGED reloj

\* Lines 187-190: render_template('resultados.html', ...).
Responder(h) ==
    LET yo == hilos[h]
    IN  /\ yo.pc = "responder"
        /\ Paso(h, [yo EXCEPT !.pc = "fin",
                              !.respuesta =
                                  [clase |-> "plantilla",
                                   resultados |-> yo.resultados,
                                   tipo |-> "congruencial",
                                   metodo |-> yo.peticion.metodo]])
        /\ UNCHANGED <<resultados_simulacion, reloj, escrituras>>

\* exportar_resultados, line 429: `if tipo in resultados_simulacion`.
Comprobar(h) ==
    LET yo == hilos[h]
    IN  /\ yo.pc = "inicio"
        /\ yo.peticion.ruta = "/exportar-resultados"
        /\ Paso(h,
               IF yo.peticion.tipo \in DOMAIN resultados_simulacion
               THEN [yo EXCEPT !.pc = "exportar"]
               ELSE [yo EXCEPT !.pc = "fin",
                               !.respuesta =
                                   Redirect("index",
                                            "No hay resultados para exportar")])
        /\ UNCHANGED <<resultados_simulacion, reloj, escrituras>>

\* exportar_resultados, lines 430-449: read the entry, build and send the CSV.
Exportar(h) ==
    LET yo == hilos[h]
    IN  /\ yo.pc = "exportar"
        /\ Paso(h, [yo EXCEPT !.pc = "fin",
                              !.resultados =
                                  resultados_simulacion[yo.peticion.tipo],
                              !.respuesta =
                                  archivo_exportado(yo.peticion.tipo, reloj)])
        /\ UNCHANGED <<resultados_simulacion, reloj, escrituras>>

\* Time passes.
Tic ==
    /\ reloj < MaxReloj
    /\ reloj' = reloj + 1
    /\ UNCHANGED <<resultados_simulacion, hilos, escrituras>>
    /\ UNCHANGED <<genVars, valVars, dfVars, webVars, estVars, loteVars,
                   detVars, pruebaVars>>

CacheNext ==
    \/ \E h \in Hilos : Procesar(h)
    \/ \E h \in Hilos : Guardar(h)
    \/ \E h \in Hilos : Responder(h)
    \/ \E h \in Hilos : Comprobar(h)
    \/ \E h \in Hilos : Exportar(h)
    \/ Tic

PeticionesInit ==
    /\ CacheInit
    /\ GenIdle /\ ValIdle /\ DfIdle /\ WebIdle /\ EstIdle /\ LoteIdle
    /\ DetIdle /\ PruebaIdle

SpecCache == PeticionesInit /\ [][CacheNext]_vars

\* ------------------------------------------------- claims on the cache
C24_ultima == escrituras[Len(escrituras)].resultados

\* C24: an export for type T delivers the results most recently stored under
\* T by a processing request; when none were ever stored under T it delivers
\* no file (a redirect with an error) and leaves the cache unchanged.
C24_ExportDeliversStored ==
    \A h \in Hilos :
        (hilos[h].peticion.ruta = "/exportar-resultados" /\ hilos[h].pc = "fin")
            => IF hilos[h].respuesta.clase = "archivo"
               THEN /\ \E k \in 1..Len(escrituras) :
                          hilos[h].resultados = escrituras[k].resultados
                    /\ hilos[h].respuesta.contenido = hilos[h].resultados
               ELSE hilos[h].respuesta.clase = "redirect"

C24_SinResultados ==
    \A h \in Hilos :
        (hilos[h].peticion.ruta = "/exportar-resultados" /\ hilos[h].pc = "fin")
            => IF hilos[h].respuesta.clase = "archivo"
               THEN \E k \in 1..Len(escrituras) :
                        hilos[h].resultados = escrituras[k].resultados
               ELSE hilos[h].respuesta.clase = "redirect"

\* What the request of thread h computes when its file can be read.
C25_completo(h, res) ==
    LET pet == hilos[h].peticion
    IN  /\ pet.ruta = "/procesar-archivo-congruencial"
        /\ pet.filename \in DOMAIN Archivos
        /\ res.metodo_aplicado = pet.metodo
        /\ res.resultados = "Procesamiento completado exitosamente"
        /\ res.timestamp \in 0..reloj
        /\ res.datos_originales =
               SubSeq(Archivos[pet.filename].filas, 1,
                      IF Len(Archivos[pet.filename].filas) < 5
                      THEN Len(Archivos[pet.filename].filas) ELSE 5)
        /\ res.estadisticas =
               [total_registros |-> Len(Archivos[pet.filename].filas),
                columnas_procesadas |-> Archivos[pet.filename].columnas]

\* C25: under every interleaving of requests storing results under a key,
\* the cache holds exactly one entry for it, the complete result of the
\* request whose write happened last and never a mixture; no other key is
\* touched; a request that fails before its write leaves the cache as it was.
C25_LastWriteWins ==
    /\ IF escrituras = <<>> THEN DOMAIN resultados_simulacion = {}
       ELSE /\ DOMAIN resultados_simulacion = {"congruencial"}
            /\ resultados_simulacion["congruencial"] = C24_ultima
            /\ C25_completo(escrituras[Len(escrituras)].hilo, C24_ultima)
    /\ \A h \in Hilos :
           (hilos[h].pc = "fin" /\ hilos[h].respuesta.clase = "redirect")
               => \A k \in 1..Len(escrituras) : escrituras[k].hilo # h

C25_Witness ==
    /\ Len(escrituras) = 2
    /\ escrituras[1].hilo = 2 /\ escrituras[2].hilo = 1
    /\ escrituras[1].resultados.timestamp < escrituras[2].resultados.timestamp
    /\ hilos[1].peticion.filename = "grande.tsv"
    /\ hilos[2].peticion.filename = "a.csv"
    /\ hilos[2].pc = "responder"
    /\ resultados_simulacion["congruencial"].estadisticas.total_registros = 7

====
